---- MODULE Spec2Model ----
(***************************************************************************)
(* Model of createToml/getPermissions.py: the script that joins the        *)
(* command records of commands.json with the permission records of         *)
(* permissions.json and prints one `name = "node"` line per command and    *)
(* alias.                                                                  *)
(*                                                                         *)
(* A Python str is a sequence of code points (naturals), so that split,    *)
(* strip, len, the f-string and the ordering used by sorted() are computed *)
(* the way Python computes them.  A JSON record is a sequence of fields.   *)
(* A dict is a function whose DOMAIN is its key set.                       *)
(***************************************************************************)
EXTENDS Integers, Sequences, FiniteSets, TLC

VARIABLES
    commandRecords,  \* json.load(commands.json)["data"]            (line 6)
    permissions,     \* json.load(permissions.json)["data"]         (line 9)
    hashSeed,        \* the interpreter's str hash seed: fixes set iteration order
    ALIASES,         \* dict  command name -> list of aliases       (line 11)
    commands,        \* dict  command name -> node                  (line 17)
    pc,              \* where the script is
    i,               \* next command record of the loop of line 12
    j,               \* next permission record of the loop of line 19
    keys,            \* sorted(set(commands)) of line 29
    k,               \* next element of keys
    names,           \* sorted({cmd, *ALIASES[cmd]}) of line 32
    n,               \* next element of names
    out,             \* the lines printed so far                    (line 33)
    outCmd           \* for each printed line, the value of cmd when it was printed

vars == <<commandRecords, permissions, hashSeed, ALIASES, commands, pc, i, j,
          keys, k, names, n, out, outCmd>>

----------------------------------------------------------------------------
(* Bounds of the model *)

MaxCommands == 2

MaxPermissions == 2

----------------------------------------------------------------------------
(* Python str and list primitives *)

Comma == 44

CommandArity == 5

PermissionArity == 4

\* str.strip() with no argument removes these (ASCII) white space characters
Whitespace == {9, 10, 11, 12, 13, 28, 29, 30, 31, 32}

RECURSIVE LStrip(_)
LStrip(s) ==
    IF s # <<>> /\ Head(s) \in Whitespace THEN LStrip(Tail(s)) ELSE s

RECURSIVE RStrip(_)
RStrip(s) ==
    IF s # <<>> /\ s[Len(s)] \in Whitespace
    THEN RStrip(SubSeq(s, 1, Len(s) - 1))
    ELSE s

Strip(s) == RStrip(LStrip(s))

\* s.split(sep) for a one-character sep: the pieces between the separators,
\* empty pieces included; "".split(",") is [""]
RECURSIVE SplitFrom(_, _, _)
SplitFrom(s, sep, piece) ==
    IF s = <<>> THEN <<piece>>
    ELSE IF Head(s) = sep THEN <<piece>> \o SplitFrom(Tail(s), sep, <<>>)
    ELSE SplitFrom(Tail(s), sep, Append(piece, Head(s)))

Split(s, sep) == SplitFrom(s, sep, <<>>)

\* Python's < on str: by code point, a proper prefix is smaller
RECURSIVE StrLess(_, _)
StrLess(s, t) ==
    IF t = <<>> THEN FALSE
    ELSE IF s = <<>> THEN TRUE
    ELSE IF Head(s) # Head(t) THEN Head(s) < Head(t)
    ELSE StrLess(Tail(s), Tail(t))

\* insertion of x into an ascending list, after the elements not greater
RECURSIVE InsertSorted(_, _)
InsertSorted(x, sq) ==
    IF sq = <<>> THEN <<x>>
    ELSE IF StrLess(x, Head(sq)) THEN <<x>> \o sq
    ELSE <<Head(sq)>> \o InsertSorted(x, Tail(sq))

RECURSIVE SortFrom(_, _)
SortFrom(sq, acc) ==
    IF sq = <<>> THEN acc ELSE SortFrom(Tail(sq), InsertSorted(Head(sq), acc))

\* mutant: no sort
UnsortedMutant(sq) == sq

\* sorted(iterable) of str
Sorted(sq) == SortFrom(sq, <<>>)

\* The order in which a set of str is iterated depends on the hash seed of
\* the interpreter run; two seeds that iterate in opposite orders are modelled.
HashSeeds == {"seedA", "seedB"}

HashBefore(s, t, seed) == IF seed = "seedA" THEN StrLess(t, s) ELSE StrLess(s, t)

RECURSIVE SetIter(_, _)
SetIter(S, seed) ==
    IF S = {} THEN <<>>
    ELSE LET first == CHOOSE x \in S : \A y \in S \ {x} : HashBefore(x, y, seed)
         IN  <<first>> \o SetIter(S \ {first}, seed)

Range(sq) == {sq[x] : x \in 1..Len(sq)}

\* dict[key] = value
Put(d, key, value) ==
    [x \in (DOMAIN d) \cup {key} |-> IF x = key THEN value ELSE d[x]]

EmptyDict == [x \in {} |-> <<>>]

\* f'{c} = "{node}"'
FormatLine(c, node) == c \o <<32, 61, 32, 34>> \o node \o <<34>>

----------------------------------------------------------------------------
(* The inputs the model runs the script on *)

Str_a == <<97>>
Str_b == <<98>>
Str_x == <<120>>
Str_y == <<121>>
Str_zz == <<122, 122>>
Str_b_list == <<98>>              \* "b"
Str_ca_list == <<32, 99, 44, 97>> \* " c,a"
Filler == <<45>>                  \* the fields the script never reads

CommandRecord(cmd, rawAliases) == <<Filler, cmd, rawAliases, Filler, Filler>>

PermissionRecord(cmd, node) == <<Filler, cmd, node, Filler>>

\* a record one field short
ShortCommandRecord == <<Filler, Str_a, Str_b_list, Filler>>

ShortPermissionRecord == <<Filler, Str_a, Str_x>>

CommandInputs ==
    { CommandRecord(Str_a, Str_ca_list), CommandRecord(Str_a, Str_b_list),
      CommandRecord(Str_b, Str_b_list),  CommandRecord(Str_b, <<>>),
      CommandRecord(<<>>, Str_b_list),   ShortCommandRecord }

PermissionInputs ==
    { PermissionRecord(Str_a, Str_x),  PermissionRecord(Str_a, Str_y),
      PermissionRecord(Str_a, Str_zz), PermissionRecord(Str_b, Str_x),
      PermissionRecord(<<>>, Str_x),   PermissionRecord(Str_a, <<>>),
      ShortPermissionRecord }

BoundedSeq(S, max) == UNION {[1..m -> S] : m \in 0..max}

----------------------------------------------------------------------------
(* The script *)

\* mutant: only a record with too many elements is rejected
UnpackFailsIfLonger(rec, arity) == Len(rec) > arity

\* `for pl, cmd, rawAliases, desc, helpText in ...` raises ValueError unless
\* the record has exactly as many elements as there are targets
UnpackFails(rec, arity) == Len(rec) # arity

\* `not x` for a str
Falsy(x) == x = <<>>

\* mutant: the pieces are not stripped
AliasListNoStrip(rawAliases) == Split(rawAliases, Comma)

\* [i.strip() for i in rawAliases.split(",")]
AliasList(rawAliases) ==
    LET pieces == Split(rawAliases, Comma)
    IN  [x \in 1..Len(pieces) |-> Strip(pieces[x])]

\* mutant: a record with an empty alias field is not skipped
AliasStepNoSkip(aliases, rec) == Put(aliases, rec[2], AliasList(rec[3]))

\* mutant: an entry already present is kept (first write wins)
AliasStepFirstWins(aliases, rec) ==
    IF rec[3] = <<>> \/ rec[2] \in DOMAIN aliases THEN aliases
    ELSE Put(aliases, rec[2], AliasList(rec[3]))

\* lines 13-15, one pass of the loop body over the record rec
AliasStep(aliases, rec) ==
    LET cmd == rec[2]
        rawAliases == rec[3]
    IN  IF Falsy(rawAliases) THEN aliases
        ELSE Put(aliases, cmd, AliasList(rawAliases))

\* mutant: the insert is not gated on the alias index
MayInsertUngated(cmd, cmds, aliases) == cmd \notin DOMAIN cmds

\* line 23
MayInsert(cmd, cmds, aliases) == cmd \notin DOMAIN cmds /\ cmd \in DOMAIN aliases

\* mutant: a node of equal length replaces the stored one
ShouldReplaceOrEqual(stored, node) == Len(stored) >= Len(node)

\* line 26
ShouldReplace(stored, node) == Len(stored) > Len(node)

\* lines 20-27, one pass of the loop body over the record rec
CommandStep(cmds, aliases, rec) ==
    LET cmd == rec[2]
        node == rec[3]
        inserted == IF MayInsert(cmd, cmds, aliases) THEN Put(cmds, cmd, node) ELSE cmds
    IN  IF Falsy(cmd) \/ Falsy(node) THEN cmds
        ELSE IF cmd \in DOMAIN inserted /\ ShouldReplace(inserted[cmd], node)
             THEN Put(inserted, cmd, node)
             ELSE inserted

\* ALIASES[cmd] raises KeyError
LookupFails(cmd, aliases) == cmd \notin DOMAIN aliases

\* sorted(set(commands)), line 29
SortedKeys(cmds, seed) == Sorted(SetIter(DOMAIN cmds, seed))

\* mutant: the names are printed in set iteration order
SortedNamesUnsorted(cmd, aliases, seed) ==
    SetIter({cmd} \cup Range(aliases[cmd]), seed)

\* sorted({cmd, *ALIASES[cmd]}), line 32
SortedNames(cmd, aliases, seed) ==
    Sorted(SetIter({cmd} \cup Range(aliases[cmd]), seed))

Init ==
    /\ commandRecords \in BoundedSeq(CommandInputs, MaxCommands)
    /\ permissions \in BoundedSeq(PermissionInputs, MaxPermissions)
    /\ hashSeed \in HashSeeds
    /\ ALIASES = EmptyDict
    /\ commands = EmptyDict
    /\ pc = "aliases"
    /\ i = 1
    /\ j = 1
    /\ keys = <<>>
    /\ k = 0
    /\ names = <<>>
    /\ n = 1
    /\ out = <<>>
    /\ outCmd = <<>>

\* lines 12-15: one iteration of the loop over the command records
BuildAliases ==
    /\ pc = "aliases"
    /\ i <= Len(commandRecords)
    /\ IF UnpackFails(commandRecords[i], CommandArity)
       THEN /\ pc' = "aborted"
            /\ UNCHANGED <<ALIASES, i>>
       ELSE /\ ALIASES' = AliasStep(ALIASES, commandRecords[i])
            /\ i' = i + 1
            /\ pc' = pc
    /\ UNCHANGED <<commandRecords, permissions, hashSeed, commands, j, keys, k,
                   names, n, out, outCmd>>

\* line 17: the loop is exhausted, commands = {}
EndAliases ==
    /\ pc = "aliases"
    /\ i > Len(commandRecords)
    /\ commands' = EmptyDict
    /\ pc' = "permissions"
    /\ UNCHANGED <<commandRecords, permissions, hashSeed, ALIASES, i, j, keys, k,
                   names, n, out, outCmd>>

\* lines 19-27: one iteration of the loop over the permission records
BuildCommands ==
    /\ pc = "permissions"
    /\ j <= Len(permissions)
    /\ IF UnpackFails(permissions[j], PermissionArity)
       THEN /\ pc' = "aborted"
            /\ UNCHANGED <<commands, j>>
       ELSE /\ commands' = CommandStep(commands, ALIASES, permissions[j])
            /\ j' = j + 1
            /\ pc' = pc
    /\ UNCHANGED <<commandRecords, permissions, hashSeed, ALIASES, i, keys, k,
                   names, n, out, outCmd>>

\* mutant: the emitter runs before the permission records are exhausted
StartEmitEarly ==
    /\ pc = "permissions"
    /\ keys' = Sorted(SetIter(DOMAIN commands, hashSeed))
    /\ k' = 0
    /\ names' = <<>>
    /\ n' = 1
    /\ pc' = "emit"
    /\ UNCHANGED <<commandRecords, permissions, hashSeed, ALIASES, commands, i, j,
                   out, outCmd>>

\* line 29: the iterable of the outer loop is evaluated
StartEmit ==
    /\ pc = "permissions"
    /\ j > Len(permissions)
    /\ keys' = SortedKeys(commands, hashSeed)
    /\ k' = 0
    /\ names' = <<>>
    /\ n' = 1
    /\ pc' = "emit"
    /\ UNCHANGED <<commandRecords, permissions, hashSeed, ALIASES, commands, i, j,
                   out, outCmd>>

\* lines 29-32: the next cmd of the outer loop, the iterable of the inner loop
NextCommand ==
    /\ pc = "emit"
    /\ n > Len(names)
    /\ k < Len(keys)
    /\ IF LookupFails(keys[k + 1], ALIASES)
       THEN /\ pc' = "aborted"
            /\ UNCHANGED <<k, names, n>>
       ELSE /\ k' = k + 1
            /\ names' = SortedNames(keys[k + 1], ALIASES, hashSeed)
            /\ n' = 1
            /\ pc' = pc
    /\ UNCHANGED <<commandRecords, permissions, hashSeed, ALIASES, commands, i, j,
                   keys, out, outCmd>>

\* line 33: one print
PrintLine ==
    /\ pc = "emit"
    /\ n <= Len(names)
    /\ out' = Append(out, FormatLine(names[n], commands[keys[k]]))
    /\ outCmd' = Append(outCmd, keys[k])
    /\ n' = n + 1
    /\ UNCHANGED <<commandRecords, permissions, hashSeed, ALIASES, commands, pc,
                   i, j, keys, k, names>>

\* the outer loop is exhausted: the script exits with status 0
Finish ==
    /\ pc = "emit"
    /\ n > Len(names)
    /\ k = Len(keys)
    /\ pc' = "done"
    /\ UNCHANGED <<commandRecords, permissions, hashSeed, ALIASES, commands, i, j,
                   keys, k, names, n, out, outCmd>>

Next ==
    \/ BuildAliases
    \/ EndAliases
    \/ BuildCommands
    \/ StartEmit
    \/ NextCommand
    \/ PrintLine
    \/ Finish

Spec == Init /\ [][Next]_vars

TypeOK ==
    /\ pc \in {"aliases", "permissions", "emit", "done", "aborted"}
    /\ i \in 1..(Len(commandRecords) + 1)
    /\ j \in 1..(Len(permissions) + 1)
    /\ k \in 0..Len(keys)
    /\ Len(out) = Len(outCmd)

----------------------------------------------------------------------------
(* Vocabulary of the properties *)

Done == pc = "done"

Aborted == pc = "aborted"

CommandIdx == 1..Len(commandRecords)

PermissionIdx == 1..Len(permissions)

\* the command record x carries the name C and a non-empty alias field
DefinesAliases(x, C) ==
    /\ Len(commandRecords[x]) >= 3
    /\ commandRecords[x][2] = C
    /\ commandRecords[x][3] # <<>>

\* the permission record y names C and carries a non-empty node
NamesCommand(y, C) ==
    /\ Len(permissions[y]) >= 3
    /\ permissions[y][2] = C
    /\ permissions[y][3] # <<>>

HasShortRecord ==
    \/ \E x \in CommandIdx : Len(commandRecords[x]) < CommandArity
    \/ \E y \in PermissionIdx : Len(permissions[y]) < PermissionArity

\* every name the run can mention
AllNames ==
    {commandRecords[x][2] : x \in CommandIdx} \cup {permissions[y][2] : y \in PermissionIdx}
        \cup DOMAIN commands \cup DOMAIN ALIASES \cup Range(outCmd)

\* the maximal comma-free pieces of raw, stripped: the aliases as a set
AliasSet(raw) ==
    { Strip(SubSeq(raw, lo, hi)) : <<lo, hi>> \in
        { w \in (1..(Len(raw) + 1)) \X (0..Len(raw)) :
            /\ w[2] >= w[1] - 1
            /\ \A x \in w[1]..w[2] : raw[x] # Comma
            /\ (w[1] = 1 \/ raw[w[1] - 1] = Comma)
            /\ (w[2] = Len(raw) \/ raw[w[2] + 1] = Comma) } }

\* the last command record that defines aliases for C
LastDefinition(C) ==
    CHOOSE x \in CommandIdx :
        DefinesAliases(x, C) /\ \A z \in CommandIdx : DefinesAliases(z, C) => z <= x

\* the lines of the group printed for the command C
GroupOf(C) == {m \in 1..Len(out) : outCmd[m] = C}

\* the names of the group of C: the command and its aliases
NameSet(C) == {C} \cup Range(ALIASES[C])

\* the name on the printed line m
LineName(m) ==
    CHOOSE name \in NameSet(outCmd[m]) :
        out[m] = FormatLine(name, commands[outCmd[m]])

----------------------------------------------------------------------------
(* C1 *)

\* the permission records of C are exactly two, with non-empty nodes of
\* different lengths
TwoNodesOfDifferentLength(C, y1, y2) ==
    /\ y1 # y2
    /\ NamesCommand(y1, C)
    /\ NamesCommand(y2, C)
    /\ Len(permissions[y1][3]) > Len(permissions[y2][3])
    /\ \A y \in PermissionIdx : (Len(permissions[y]) >= 2 /\ permissions[y][2] = C) => y \in {y1, y2}

\* C1: when a command with a non-empty alias field has two permission records
\* with nodes of different lengths, every line of its group carries the longer
\* node, whichever of the two records comes first.
C1_LongerNodePrinted ==
    Done =>
        \A C \in AllNames \ {<<>>} : \A y1, y2 \in PermissionIdx :
            ((\E x \in CommandIdx : DefinesAliases(x, C)) /\ TwoNodesOfDifferentLength(C, y1, y2))
            => /\ GroupOf(C) # {}
               /\ \A m \in GroupOf(C) : \E name \in NameSet(C) :
                      out[m] = FormatLine(name, permissions[y1][3])

----------------------------------------------------------------------------
(* C2 *)

\* C has an alias definition and a permission record with a non-empty node
Joined(C) ==
    /\ \E x \in CommandIdx : DefinesAliases(x, C)
    /\ \E y \in PermissionIdx : NamesCommand(y, C)

\* the output has a line for C and for each alias of C, all with C's node
GroupComplete(C) ==
    /\ C \in DOMAIN commands
    /\ \A name \in {C} \cup AliasSet(commandRecords[LastDefinition(C)][3]) :
           \E m \in GroupOf(C) : out[m] = FormatLine(name, commands[C])

\* C2 as stated: for every command C with a non-empty alias field and a
\* permission record with command C and a non-empty node, the output has a line
\* for C and a line for each alias, all carrying the node resolved for C.
C2_GroupForEveryJoinedCommand ==
    Done => \A C \in AllNames : Joined(C) => GroupComplete(C)

\* C2 as amended: the same, for every command C whose name is not empty.
C2_GroupForEveryJoinedNamedCommand ==
    Done => \A C \in AllNames \ {<<>>} : Joined(C) => GroupComplete(C)

\* a finished run that joined a command having two aliases to strip
C2_Witness ==
    /\ Done
    /\ \E C \in AllNames \ {<<>>} :
           /\ Joined(C)
           /\ Cardinality(AliasSet(commandRecords[LastDefinition(C)][3])) = 2
           /\ Len(out) >= 2

----------------------------------------------------------------------------
(* C3 *)

\* C3: a command whose alias field is empty in every command record is never a
\* key of the command-node map and never has a line printed for it, whatever
\* permission records name it.
C3_NoAliasNoGroup ==
    \A C \in AllNames :
        (~ \E x \in CommandIdx : DefinesAliases(x, C))
        => C \notin DOMAIN commands /\ GroupOf(C) = {}

\* a finished run with output in which a command with an empty alias field
\* and no alias definition is named by a permission record with a node
C3_Witness ==
    /\ Done
    /\ out # <<>>
    /\ \E C \in AllNames \ {<<>>} :
           /\ \E x \in CommandIdx : commandRecords[x][2] = C /\ commandRecords[x][3] = <<>>
           /\ ~ \E x \in CommandIdx : DefinesAliases(x, C)
           /\ \E y \in PermissionIdx : NamesCommand(y, C)

----------------------------------------------------------------------------
(* C4 *)

\* C4: the output is one group per key of the command-node map, the groups in
\* strictly ascending order of command name; in a group the names are the
\* distinct elements of the command and its aliases, strictly ascending, one
\* line each.
C4_GroupsAndNamesAscending ==
    Done =>
        /\ Range(outCmd) = DOMAIN commands
        /\ \A m1, m2 \in 1..Len(out) :
               m1 < m2 =>
                   \/ StrLess(outCmd[m1], outCmd[m2])
                   \/ /\ outCmd[m1] = outCmd[m2]
                      /\ StrLess(LineName(m1), LineName(m2))
        /\ \A C \in DOMAIN commands :
               /\ Cardinality(GroupOf(C)) = Cardinality(NameSet(C))
               /\ \A m \in GroupOf(C) : \E name \in NameSet(C) :
                      out[m] = FormatLine(name, commands[C])

\* a finished run with two groups, one of a command that is its own alias
C4_Witness ==
    /\ Done
    /\ Cardinality(DOMAIN commands) = 2
    /\ \E C \in DOMAIN commands :
           /\ C \in Range(ALIASES[C])
           /\ Cardinality(GroupOf(C)) >= 2

----------------------------------------------------------------------------
(* C5 *)

\* C5: with a command record of fewer than 5 elements or a permission record
\* of fewer than 4 anywhere in the input, the run never reaches the emitter or
\* the successful exit: it is aborted, or still in a build pass with a step to
\* take.
C5_ShortRecordAborts ==
    HasShortRecord =>
        \/ Aborted
        \/ pc \in {"aliases", "permissions"} /\ ENABLED Next

\* a run aborted by a short permission record that is not the first one
C5_Witness ==
    /\ Aborted
    /\ j > 1
    /\ Len(permissions[j]) < PermissionArity
    /\ \A x \in CommandIdx : Len(commandRecords[x]) = CommandArity

----------------------------------------------------------------------------
(* C6 *)

\* a second run of the script on the same two inputs, under the hash seed
\* `seed`, as the composition of its three passes
RECURSIVE AliasesAfter(_, _)
AliasesAfter(recs, aliases) ==
    IF recs = <<>> THEN aliases
    ELSE AliasesAfter(Tail(recs), AliasStep(aliases, Head(recs)))

RECURSIVE CommandsAfter(_, _, _)
CommandsAfter(recs, cmds, aliases) ==
    IF recs = <<>> THEN cmds
    ELSE CommandsAfter(Tail(recs), CommandStep(cmds, aliases, Head(recs)), aliases)

RECURSIVE LinesOf(_, _, _, _)
LinesOf(ks, cmds, aliases, seed) ==
    IF ks = <<>> THEN <<>>
    ELSE LET nm == SortedNames(Head(ks), aliases, seed)
         IN  [x \in 1..Len(nm) |-> FormatLine(nm[x], cmds[Head(ks)])]
                 \o LinesOf(Tail(ks), cmds, aliases, seed)

SecondRun(seed) ==
    LET aliases == AliasesAfter(commandRecords, EmptyDict)
        cmds == CommandsAfter(permissions, EmptyDict, aliases)
    IN  LinesOf(SortedKeys(cmds, seed), cmds, aliases, seed)

\* C6: a run that exits successfully has printed the line sequence that a
\* second run on the same commands and permissions prints, whatever the hash
\* seed (the set iteration order) of the second run.
C6_SameInputSameOutput ==
    Done => \A seed \in HashSeeds : out = SecondRun(seed)

\* a finished run whose output has two groups and a group of two names
C6_Witness ==
    /\ Done
    /\ Len(keys) = 2
    /\ Len(out) >= 3

----------------------------------------------------------------------------
(* C7 *)

\* C7: in every state every key of the command-node map is a key of the
\* alias index, and the emitter's lookup of the alias list of the next
\* command never fails (no run is aborted after both build passes).
C7_MapKeysHaveAliases ==
    /\ DOMAIN commands \subseteq DOMAIN ALIASES
    /\ (pc = "emit" /\ k < Len(keys)) => keys[k + 1] \in DOMAIN ALIASES
    /\ Aborted => (i <= Len(commandRecords) \/ j <= Len(permissions))

\* the permission pass has stored a node and has met a record, with a node,
\* that names a command absent from the alias index
C7_Witness ==
    /\ pc = "permissions"
    /\ commands # EmptyDict
    /\ \E y \in 1..(j - 1) : \E C \in AllNames \ {<<>>} :
           NamesCommand(y, C) /\ C \notin DOMAIN ALIASES

----------------------------------------------------------------------------
(* C8 *)

\* the permission records that name C with a non-empty node
RecordsOf(C) == {y \in PermissionIdx : NamesCommand(y, C)}

FirstRecordOf(C) == CHOOSE y \in RecordsOf(C) : \A z \in RecordsOf(C) : y <= z

\* C8: a step over a permission record whose command is in the map and whose
\* node is as long as the stored node leaves the map unchanged; and after the
\* pass a command whose permission records all carry nodes of one length has
\* the node of the first of them.
C8_EqualLengthKeepsFirst ==
    /\ [][ ( /\ pc = "permissions"
             /\ j <= Len(permissions)
             /\ j' = j + 1
             /\ permissions[j][2] \in DOMAIN commands
             /\ Len(permissions[j][3]) = Len(commands[permissions[j][2]]) )
           => commands' = commands ]_vars
    /\ [](pc \in {"emit", "done"} =>
            \A C \in DOMAIN commands :
                (\A y, z \in RecordsOf(C) : Len(permissions[y][3]) = Len(permissions[z][3]))
                => commands[C] = permissions[FirstRecordOf(C)][3])

\* a finished run over two permission records of one command in the map whose
\* nodes differ and have the same length
C8_Witness ==
    /\ Done
    /\ \E C \in DOMAIN commands : \E y, z \in RecordsOf(C) :
           /\ y < z
           /\ permissions[y][3] # permissions[z][3]
           /\ Len(permissions[y][3]) = Len(permissions[z][3])

----------------------------------------------------------------------------
(* C9 *)

\* the command records the alias pass has gone through that define aliases for C
DefinitionsSoFar(C) == {x \in 1..(i - 1) : DefinesAliases(x, C)}

LastSoFar(C) == CHOOSE x \in DefinitionsSoFar(C) : \A z \in DefinitionsSoFar(C) : z <= x

\* C9: at every point of the alias pass and after it, the alias index has an
\* entry exactly for the names that a processed record defines aliases for,
\* and the entry is the alias list of the last such record; records with an
\* empty alias field have no effect.
C9_LastAliasDefinitionWins ==
    /\ DOMAIN ALIASES = {C \in AllNames : DefinitionsSoFar(C) # {}}
    /\ \A C \in DOMAIN ALIASES :
           /\ Range(ALIASES[C]) = AliasSet(commandRecords[LastSoFar(C)][3])
           /\ ALIASES[C] = AliasList(commandRecords[LastSoFar(C)][3])

\* the alias pass is over two records of one name with different non-empty
\* alias fields
C9_Witness ==
    /\ pc = "permissions"
    /\ \E C \in AllNames : \E x, z \in DefinitionsSoFar(C) :
           x < z /\ commandRecords[x][3] # commandRecords[z][3]

----------------------------------------------------------------------------
(* C10 *)

\* C10: a line is printed only after both build passes have gone through all
\* their records; an aborted run has printed nothing; a run that has printed a
\* line is in the emitter with a step to take or has exited successfully with
\* the group of every key printed.
C10_OutputAllOrNothing ==
    /\ out # <<>> => /\ i > Len(commandRecords)
                     /\ j > Len(permissions)
                     /\ ~HasShortRecord
                     /\ Done \/ (pc = "emit" /\ ENABLED Next)
    /\ Aborted => out = <<>>
    /\ Done => /\ k = Len(keys)
               /\ n > Len(names)
               /\ \A C \in DOMAIN commands :
                      Cardinality(GroupOf(C)) = Cardinality(NameSet(C))

\* the emitter is in the middle of a group, after two permission records
C10_Witness ==
    /\ pc = "emit"
    /\ out # <<>>
    /\ n <= Len(names)
    /\ Len(permissions) = 2

====
